---- MODULE Spec2Model ----
(***************************************************************************)
(* Build-time translation pipeline of the blog:                            *)
(*   scripts/translate.mjs              (KeyManager, hashContent,          *)
(*                                       translateText, translateBatch,    *)
(*                                       translateDirectory, main)         *)
(*   src/integrations/astro-translate.ts (translationCache,                *)
(*                                       translateDirectory, the           *)
(*                                       astro:build:start hook)           *)
(*   src/pages/api/translate.ts          (the POST handler)                *)
(*                                                                         *)
(* Three specifications share the variables:                               *)
(*   Spec      - a whole program run at file granularity: the script's     *)
(*               main (run twice in a row over the same directories) or    *)
(*               the integration's build hook;                             *)
(*   FileSpec  - the processing of one queued file of the script at        *)
(*               request granularity: translateBatch over its paragraphs,  *)
(*               then the title/description pair, with every interleaving  *)
(*               of the responses and retry timers;                        *)
(*   ApiSpec   - the POST handler of the API route, request by request.    *)
(***************************************************************************)
EXTENDS FiniteSets, Integers, Sequences, TLC

(***************************************************************************)
(* Values of the JavaScript runtime that the code can produce.             *)
(* Strings are sequences of one-character strings; undefined and null are   *)
(* one-element sequences that no string equals.                            *)
(***************************************************************************)
Undefined == <<"#undefined">>
Null == <<"#null">>

RECURSIVE SeqToSet(_)
SeqToSet(s) == IF s = <<>> THEN {} ELSE {Head(s)} \cup SeqToSet(Tail(s))

(***************************************************************************)
(* hashContent.  A string is a sequence of UTF-16 code units.  The running *)
(* hash is a 32-bit integer, kept here as two 16-bit limbs <<hi, lo>> of   *)
(* its two's-complement bit pattern, so that the wrap of `hash & hash` is  *)
(* computed and not assumed away.                                          *)
(***************************************************************************)
Limb == 2 ^ 16

\* hash = (hash << 5) - hash + char; hash = hash & hash   (31*hash + char mod 2^32)
HashStep(h, char) ==
    LET lo == 31 * h[2] + char
        hi == 31 * h[1] + (lo \div Limb)
    IN  <<hi % Limb, lo % Limb>>

RECURSIVE HashLoop(_, _)
HashLoop(h, content) ==
    IF content = <<>> THEN h
    ELSE HashLoop(HashStep(h, Head(content)), Tail(content))

\* the sign of the int32 whose bit pattern is h
IsNegative(h) == h[1] >= Limb \div 2

\* the magnitude of the int32 whose bit pattern is h, again as two limbs
Magnitude(h) ==
    IF ~IsNegative(h) THEN h
    ELSE IF h[2] = 0 THEN <<Limb - h[1], 0>>
    ELSE <<Limb - 1 - h[1], Limb - h[2]>>

\* the digits of radix 36
DigitChars ==
    <<"0", "1", "2", "3", "4", "5", "6", "7", "8", "9", "a", "b", "c", "d", "e", "f",
      "g", "h", "i", "j", "k", "l", "m", "n", "o", "p", "q", "r", "s", "t", "u", "v",
      "w", "x", "y", "z">>

\* Number.prototype.toString(36) of a non-negative two-limb number, most
\* significant digit first
RECURSIVE Digits36(_)
Digits36(m) ==
    LET t == (m[1] % 36) * Limb + m[2]
        q == <<m[1] \div 36, t \div 36>>
        d == DigitChars[(t % 36) + 1]
    IN  IF q = <<0, 0>> THEN <<d>> ELSE Append(Digits36(q), d)

\* toString(36) of a signed number; "-" is the sign character
ToString36(negative, m) ==
    IF negative /\ m # <<0, 0>> THEN <<"-">> \o Digits36(m) ELSE Digits36(m)

\* return Math.abs(hash).toString(36)
hashContent(content) ==
    ToString36(FALSE, Magnitude(HashLoop(<<0, 0>>, content)))

\* the regular expression class \w on the characters a marker can hold: the
\* digits and lower-case letters, not the sign
IsWordChar(c) == c \in SeqToSet(DigitChars) \cup {"_"}

\* existing.match(/<!-- hash: (\w+) -->/)?.[1] on a file whose first
\* "<!-- hash: ... -->" comment holds the characters `marker`
MatchHash(marker) ==
    IF marker # <<>> /\ \A i \in 1..Len(marker) : IsWordChar(marker[i])
    THEN marker
    ELSE Undefined

(***************************************************************************)
(* String methods.                                                         *)
(***************************************************************************)
IsSpace(c) == c \in {" ", "\n"}

RECURSIVE TrimStart(_)
TrimStart(s) == IF s # <<>> /\ IsSpace(Head(s)) THEN TrimStart(Tail(s)) ELSE s

RECURSIVE TrimEnd(_)
TrimEnd(s) ==
    IF s # <<>> /\ IsSpace(s[Len(s)]) THEN TrimEnd(SubSeq(s, 1, Len(s) - 1)) ELSE s

\* String.prototype.trim
Trim(s) == TrimEnd(TrimStart(s))

\* String.prototype.startsWith
StartsWith(s, prefix) ==
    Len(s) >= Len(prefix) /\ SubSeq(s, 1, Len(prefix)) = prefix

\* s.replace(/\n/g, " ")
ReplaceNewlines(s) == [i \in 1..Len(s) |-> IF s[i] = "\n" THEN " " ELSE s[i]]

\* JavaScript truthiness of a value that is a string, null or undefined
Truthy(v) == v # Null /\ v # Undefined /\ v # <<>>

(***************************************************************************)
(* The translation service.  What it answers is not decided by the         *)
(* program: every response is one of these outcomes.                       *)
(***************************************************************************)
Failures == {"http", "code", "throw"}  \* !response.ok, data.code !== 200, exception
Successes == {"ok", "empty"}           \* code 200 with data, code 200 with data ""
Outcomes == Successes \cup Failures

\* the `data.data` of a successful response to `text`
Data(text, outcome) == IF outcome = "ok" THEN <<"E", "N", ":">> \o text ELSE <<>>

(***************************************************************************)
(* Source documents.  A document is its content (the UTF-16 code units     *)
(* hashContent reads) together with what gray-matter's matter(content)     *)
(* makes of it: an exception, or the frontmatter and the body, the body    *)
(* given by its paragraphs (body.split(/\n\n+/)).                          *)
(***************************************************************************)
Plain == <<"h", "i">>
\* the backtick is written as the string "bt"
Backtick == "bt"
CodeFence == <<Backtick, Backtick, Backtick, "x">>
Indented == <<" ", " ", " ", " ", "x">>
Html == <<"<", "p", ">">>
Blank == <<" ">>
Empty == <<>>
Word == <<"y", "o">>

\* "Aa": a titled post with a paragraph of text and a code block
DocA ==
    [content |-> <<65, 97>>, bad |-> FALSE, title |-> <<"T">>,
     description |-> <<"D">>, paragraphs |-> <<Plain, CodeFence>>]

\* "BB": hashes like "Aa" (31 * 66 + 66 = 31 * 65 + 97); its frontmatter is
\* no valid YAML, so matter(content) throws
DocB ==
    [content |-> <<66, 66>>, bad |-> TRUE, title |-> <<>>,
     description |-> <<>>, paragraphs |-> <<>>]

\* "zzzzzz": its 32-bit hash is negative; no title, no description
DocZ ==
    [content |-> <<122, 122, 122, 122, 122, 122>>, bad |-> FALSE, title |-> <<>>,
     description |-> <<>>, paragraphs |-> <<Plain>>]

Docs == {DocA, DocB, DocZ}

(***************************************************************************)
(* Directory entries and file names.  A name is <<stem, extension>>.       *)
(***************************************************************************)
Meng == <<"meng", "md">>       \* the first key of the map, in Latin letters
MengDated == <<"2025.07.29_meng", "md">>
Dream == <<"dream", "md">>
DreamDated == <<"2025.07.29_dream", "md">>
Readme == <<"readme", "txt">>
About == <<"about", "mdx">>

NoEntry == [kind |-> "none"]
SubDir == [kind |-> "dir"]
File(d) == [kind |-> "file", doc |-> d]

\* f.endsWith(".md") || f.endsWith(".mdx")
IsMarkdown(f) == f[2] \in {"md", "mdx"}

FILE_NAME_MAP == (Meng :> Dream) @@ (MengDated :> DreamDated)

\* FILE_NAME_MAP[inputFileName] || inputFileName
getOutputFileName(inputFileName) ==
    IF inputFileName \in DOMAIN FILE_NAME_MAP
    THEN FILE_NAME_MAP[inputFileName]
    ELSE inputFileName

\* an output file: the characters of its first "<!-- hash: ... -->" comment
\* (<<>> when it has none), its frontmatter title and description, its body
OutFile(marker, title, description, body) ==
    [kind |-> "file", marker |-> marker, title |-> title,
     description |-> description, body |-> body]

\* a mutant of main: the two calls of translateDirectory change places
ContentDirsSwapped == <<"note", "post">>

\* the two content directories, in the order main (and contentDirs) lists them
ContentDirs == <<"post", "note">>

\* readdir(sourcePath): the names of the directory, in directory order
DirOrder == <<Meng, Dream, Readme, About>>
readdir(listing) ==
    SelectSeq(DirOrder, LAMBDA f : f \in DOMAIN listing /\ listing[f] # NoEntry)

(***************************************************************************)
(* Environment variables.  A value is Undefined or a string, and a string  *)
(* is given by its comma-separated fields: "" is <<"">>, "," is <<"", "">>.*)
(***************************************************************************)
\* a mutant of the test for a key: every value passes
AlwaysSet(v) == TRUE

\* if (!keysEnv), if (!apiKey): a value is truthy when defined and not ""
IsSetEnv(v) == v # Undefined /\ v # <<"">>

\* k.trim() on a field: a field of spaces becomes ""
TrimKey(k) == IF k = " " THEN "" ELSE k

\* process.env.DEEPLX_API_KEYS || process.env.DEEPLX_API_KEY
KeysEnv(e) ==
    IF IsSetEnv(e.DEEPLX_API_KEYS) THEN e.DEEPLX_API_KEYS ELSE e.DEEPLX_API_KEY

\* keysEnv.split(",").map(k => k.trim()).filter(k => k)
ParseKeys(keysEnv) ==
    SelectSeq([i \in 1..Len(keysEnv) |-> TrimKey(keysEnv[i])], LAMBDA k : k # "")

(***************************************************************************)
(* KeyManager.  index is a number; NaN is kept as the value below zero.    *)
(***************************************************************************)
NaN == 0 - 1
UndefinedKey == "undefined"

\* a mutant of getNextKey: the index runs past the end of the list
UnwrappedIndex(ks, i) == IF i = NaN \/ Len(ks) = 0 THEN NaN ELSE i + 1

\* const key = this.keys[this.index]
KeyAt(ks, i) == IF i # NaN /\ i + 1 \in DOMAIN ks THEN ks[i + 1] ELSE UndefinedKey

\* this.index = (this.index + 1) % this.keys.length
NextIndex(ks, i) == IF i = NaN \/ Len(ks) = 0 THEN NaN ELSE (i + 1) % Len(ks)

\* the index after n calls of getNextKey
RECURSIVE IndexAfter(_, _, _)
IndexAfter(ks, i, n) == IF n = 0 THEN i ELSE IndexAfter(ks, NextIndex(ks, i), n - 1)

(***************************************************************************)
(* translateText and translateBatch as functions of what the service       *)
(* answers.  A call's course is summed up by the number of requests it     *)
(* made and the outcome of the last one; FileSpec below runs the loop      *)
(* request by request.                                                     *)
(***************************************************************************)
CONCURRENCY == 5
RETRIES == 3

\* if (!text || text.trim().length === 0) return text
IsBlankText(text) == ~Truthy(text) \/ Len(Trim(text)) = 0

\* the courses a translateText call can take: success at request 1..retries,
\* or failure of all of them
Courses ==
    {[requests |-> n, last |-> o] : n \in 1..RETRIES, o \in Successes}
        \cup {[requests |-> RETRIES, last |-> "http"]}

\* what translateText returns for a course
translateTextResult(text, course) ==
    IF IsBlankText(text) THEN text
    ELSE IF course.last \in Successes THEN Data(text, course.last)
    ELSE Null

\* how many requests (and getNextKey calls) translateText makes
translateTextRequests(text, course) ==
    IF IsBlankText(text) THEN 0 ELSE course.requests

\* a mutant of the test: markup is not passed through
ShouldSkipNoMarkup(text) ==
    \/ Len(Trim(text)) = 0
    \/ StartsWith(text, <<Backtick, Backtick, Backtick>>)
    \/ StartsWith(text, <<" ", " ", " ", " ">>)

\* translateBatch's test for content that is passed through untranslated
ShouldSkip(text) ==
    \/ Len(Trim(text)) = 0
    \/ StartsWith(text, <<Backtick, Backtick, Backtick>>)
    \/ StartsWith(text, <<" ", " ", " ", " ">>)
    \/ StartsWith(text, <<"<">>)

\* translated || text
OrElse(translated, text) == IF Truthy(translated) THEN translated ELSE text

\* const translated = await translateText(text, keyManager), for every text
\* that is sent; Undefined where translateText is not called
translatedTexts(texts, courses) ==
    [i \in 1..Len(texts) |->
        IF ShouldSkip(texts[i]) THEN Undefined
        ELSE translateTextResult(texts[i], courses[i])]

\* translateBatch(texts, keyManager), courses[i] the course of texts[i]
translateBatchResult(texts, courses) ==
    [i \in 1..Len(texts) |->
        IF ShouldSkip(texts[i]) THEN texts[i]
        ELSE OrElse(translateTextResult(texts[i], courses[i]), texts[i])]

RECURSIVE SumTo(_, _)
SumTo(f, n) == IF n = 0 THEN 0 ELSE f[n] + SumTo(f, n - 1)

translateBatchRequests(texts, courses) ==
    SumTo([i \in 1..Len(texts) |->
              IF ShouldSkip(texts[i]) THEN 0
              ELSE translateTextRequests(texts[i], courses[i])], Len(texts))

(***************************************************************************)
(* State.                                                                  *)
(***************************************************************************)
VARIABLES
    prog,              \* which program runs: "script" or "integration"
    env,               \* process.env
    enabled,           \* the integration's option
    src,               \* the source directories: dir -> [exists, entries]
    out,               \* the output directories: dir -> name -> entry
    pc,                \* where the program stands
    run,               \* how many times the program was started
    dirIdx,            \* the content directory being processed (1-based)
    keys, index,       \* the KeyManager
    filesToTranslate,  \* translateDirectory's queue (script)
    pos,               \* position in the queue (script) or in mdFiles (integration)
    cur,               \* the file being translated: frontmatter and body so far
    requested,         \* files a translation request was issued for, this run
    written,           \* <<dir, output name>> written, this run
    failedLog,         \* files logged as failed, this run
    doneLog,           \* files logged as done, this run
    skipLog,           \* files logged or counted as skipped, this run
    prevClean,         \* the previous run logged no failure
    untranslated,      \* <<run, dir, file>> written with a paragraph that was
                       \* sent and came back untranslated
    translationCache,  \* the integration's Map: content hash -> output text
    mdFiles,           \* the integration's list of the directory's files
    counters           \* the integration's translated, skipped and their totals

scriptVars == <<keys, index, filesToTranslate, cur, doneLog, prevClean, untranslated>>
hookVars == <<translationCache, mdFiles, counters>>

progVars ==
    <<prog, env, enabled, src, out, pc, run, dirIdx, pos, requested, written,
      failedLog, skipLog, scriptVars, hookVars>>

VARIABLES
    tasks,             \* FileSpec: the translateText calls of the file, by text
    batchStart,        \* FileSpec: translateBatch's loop variable i
    keyLog             \* every key getNextKey returned, in call order

fileVars == <<tasks, batchStart, keyLog>>

VARIABLES
    request,           \* ApiSpec: the request the POST handler works on
    handler,           \* ApiSpec: where the handler stands
    response,          \* ApiSpec: what the upstream fetch resolved to
    fetches,           \* ApiSpec: upstream requests issued for this request
    returned,          \* ApiSpec: what the handler's promise settled with
    served             \* ApiSpec: the statuses answered so far, in order

apiVars == <<request, handler, response, fetches, returned, served>>

vars == <<progVars, fileVars, apiVars>>

MaxRuns == 2

(***************************************************************************)
(* translateDirectory of scripts/translate.mjs: the scan.                  *)
(***************************************************************************)
\* a mutant of the skip test: skip whenever the output file has a marker
IsCachedAnyMarker(doc, existing) ==
    existing.kind = "file" /\ MatchHash(existing.marker) # Undefined

\* try { existing = readFile(outPath) ... existingHash === contentHash } catch {}
IsCached(doc, existing) ==
    existing.kind = "file" /\ MatchHash(existing.marker) = hashContent(doc.content)

\* the queue entry pushed for a file
QueueEntry(file, doc) ==
    [file |-> file, doc |-> doc, contentHash |-> hashContent(doc.content),
     outputFileName |-> getOutputFileName(file)]

\* files.filter(f => f.endsWith(".md") || f.endsWith(".mdx")), without the
\* directories (fileStat.isDirectory())
SourceFiles(listing) ==
    SelectSeq(readdir(listing), LAMBDA f : IsMarkdown(f) /\ listing[f].kind = "file")

\* the files the scan skips as cached, and the queue it builds
CachedFiles(listing, outdir) ==
    SelectSeq(SourceFiles(listing),
              LAMBDA f : IsCached(listing[f].doc, outdir[getOutputFileName(f)]))

ScanQueue(listing, outdir) ==
    LET todo == SelectSeq(SourceFiles(listing),
                    LAMBDA f : ~IsCached(listing[f].doc, outdir[getOutputFileName(f)]))
    IN  [i \in 1..Len(todo) |-> QueueEntry(todo[i], listing[todo[i]].doc)]

NoCur == [stage |-> "idle"]
Dir == ContentDirs[dirIdx]

\* what follows the file at queue position p - 1: the next queued file, the
\* next directory, or the end of main
AfterFile(p, queue) ==
    /\ pos' = p
    /\ cur' = NoCur
    /\ IF p <= Len(queue) THEN pc' = "file" /\ dirIdx' = dirIdx
       ELSE IF dirIdx < Len(ContentDirs) THEN pc' = "readdir" /\ dirIdx' = dirIdx + 1
       ELSE pc' = "exit" /\ dirIdx' = dirIdx

\* main, up to the first translateDirectory
Main ==
    /\ prog = "script" /\ pc = "main"
    /\ IF ~IsSetEnv(KeysEnv(env))
       THEN pc' = "exit" /\ UNCHANGED <<keys, index, dirIdx>>
       ELSE /\ keys' = ParseKeys(KeysEnv(env))
            /\ index' = 0
            /\ dirIdx' = 1
            /\ pc' = "readdir"
    /\ UNCHANGED <<apiVars, fileVars, hookVars, prog, env, enabled, src, out, run, filesToTranslate, pos, cur,
                   requested, written, failedLog, doneLog, skipLog, prevClean, untranslated>>

\* translateDirectory: readdir fails, the directory is skipped
DirectoryNotFound ==
    /\ prog = "script" /\ pc = "readdir"
    /\ ~src[Dir].exists
    /\ filesToTranslate' = <<>>
    /\ AfterFile(1, <<>>)
    /\ UNCHANGED <<apiVars, fileVars, hookVars, prog, env, enabled, src, out, run, keys, index, requested, written,
                   failedLog, doneLog, skipLog, prevClean, untranslated>>

\* translateDirectory: the loop that collects filesToTranslate
ScanDirectory ==
    /\ prog = "script" /\ pc = "readdir"
    /\ src[Dir].exists
    /\ LET queue == ScanQueue(src[Dir].entries, out[Dir])
           cached == CachedFiles(src[Dir].entries, out[Dir])
       IN  /\ filesToTranslate' = queue
           /\ skipLog' = skipLog \cup {<<Dir, f>> : f \in SeqToSet(cached)}
           /\ AfterFile(1, queue)
    /\ UNCHANGED <<apiVars, fileVars, hookVars, prog, env, enabled, src, out, run, keys, index, requested, written,
                   failedLog, doneLog, prevClean, untranslated>>

(***************************************************************************)
(* translateDirectory of scripts/translate.mjs: the translation loop over  *)
(* filesToTranslate.  Each file is one try block; its awaits split it into *)
(* parse, body, title/description and write.                               *)
(***************************************************************************)
Entry == filesToTranslate[pos]

\* the courses of the translateText calls of a list of texts; a text that is
\* not sent has the course NoCourse
NoCourse == [requests |-> 0, last |-> "none"]
CourseChoices(sent) ==
    {c \in [1..Len(sent) -> Courses \cup {NoCourse}] :
        \A i \in 1..Len(sent) : (c[i] = NoCourse) <=> ~sent[i]}

\* a mutant of the catch block: the exception leaves the loop and the
\* directory
AbandonDirectory(p, queue) == AfterFile(Len(queue) + 1, queue)

\* catch (e) { console.error(...) }: the loop goes on with the next file
CatchAndContinue(p, queue) == AfterFile(p + 1, queue)

\* matter(content) parses, or throws and the catch block logs the failure
StartFile ==
    /\ prog = "script" /\ pc = "file"
    /\ IF Entry.doc.bad
       THEN /\ failedLog' = failedLog \cup {<<Dir, Entry.file>>}
            /\ CatchAndContinue(pos, filesToTranslate)
       ELSE /\ cur' = [stage |-> "parsed",
                       title |-> Entry.doc.title,
                       description |-> Entry.doc.description,
                       paragraphs |-> Entry.doc.paragraphs,
                       translated |-> <<>>,
                       body |-> <<>>,
                       translatedTitle |-> Undefined,
                       translatedDesc |-> Undefined]
            /\ pc' = "body"
            /\ UNCHANGED <<failedLog, pos, dirIdx>>
    /\ UNCHANGED <<apiVars, fileVars, hookVars, prog, env, enabled, src, out, run, keys, index, filesToTranslate,
                   requested, written, doneLog, skipLog, prevClean, untranslated>>

\* translatedParagraphs = await translateBatch(paragraphs, keyManager)
TranslateBody ==
    /\ prog = "script" /\ pc = "body"
    /\ \E courses \in CourseChoices([i \in 1..Len(cur.paragraphs) |-> ~ShouldSkip(cur.paragraphs[i])]) :
          LET n == translateBatchRequests(cur.paragraphs, courses)
          IN  /\ cur' = [cur EXCEPT
                            !.stage = "body",
                            !.translated = translatedTexts(cur.paragraphs, courses),
                            !.body = translateBatchResult(cur.paragraphs, courses)]
              /\ index' = IndexAfter(keys, index, n)
              /\ requested' =
                    IF n > 0 THEN requested \cup {<<Dir, Entry.file>>} ELSE requested
    /\ pc' = "meta"
    /\ UNCHANGED <<apiVars, fileVars, hookVars, prog, env, enabled, src, out, run, dirIdx, keys, filesToTranslate,
                   pos, written, failedLog, doneLog, skipLog, prevClean, untranslated>>

\* a mutant of the update: the result is stored without the test for it
RetitleUnchecked(old, translatedText) ==
    IF Truthy(translatedText) THEN Trim(ReplaceNewlines(translatedText))
    ELSE translatedText

\* if (translatedTitle) frontmatter.title = translatedTitle.replace(/\n/g, " ").trim()
Retitle(old, translatedText) ==
    IF Truthy(translatedText) THEN Trim(ReplaceNewlines(translatedText)) ELSE old

\* [translatedTitle, translatedDesc] = await Promise.all([...])
TranslateMeta ==
    /\ prog = "script" /\ pc = "meta"
    /\ \E courses \in CourseChoices(<<Truthy(cur.title), Truthy(cur.description)>>) :
          LET t == IF Truthy(cur.title)
                   THEN translateTextResult(cur.title, courses[1]) ELSE Null
              d == IF Truthy(cur.description)
                   THEN translateTextResult(cur.description, courses[2]) ELSE Null
              n == courses[1].requests + courses[2].requests
          IN  /\ cur' = [cur EXCEPT
                            !.stage = "meta",
                            !.translatedTitle = t,
                            !.translatedDesc = d,
                            !.title = Retitle(cur.title, t),
                            !.description = Retitle(cur.description, d)]
              /\ index' = IndexAfter(keys, index, n)
              /\ requested' =
                    IF n > 0 THEN requested \cup {<<Dir, Entry.file>>} ELSE requested
    /\ pc' = "write"
    /\ UNCHANGED <<apiVars, fileVars, hookVars, prog, env, enabled, src, out, run, dirIdx, keys, filesToTranslate,
                   pos, written, failedLog, doneLog, skipLog, prevClean, untranslated>>

\* translatedParagraphs.join("\n\n")
RECURSIVE Join(_)
Join(parts) ==
    IF parts = <<>> THEN <<>>
    ELSE IF Len(parts) = 1 THEN parts[1]
    ELSE parts[1] \o <<"\n", "\n">> \o Join(Tail(parts))

\* await writeFile(outPath, matter.stringify(finalContent, frontmatter))
WriteFile ==
    /\ prog = "script" /\ pc = "write"
    /\ out' = [out EXCEPT ![Dir][Entry.outputFileName] =
                  OutFile(Entry.contentHash, cur.title, cur.description, Join(cur.body))]
    /\ written' = written \cup {<<Dir, Entry.outputFileName>>}
    /\ doneLog' = doneLog \cup {<<Dir, Entry.file>>}
    /\ untranslated' =
          IF \E i \in 1..Len(cur.paragraphs) :
                 ~ShouldSkip(cur.paragraphs[i]) /\ ~Truthy(cur.translated[i])
          THEN untranslated \cup {<<run, Dir, Entry.file>>}
          ELSE untranslated
    /\ AfterFile(pos + 1, filesToTranslate)
    /\ UNCHANGED <<apiVars, fileVars, hookVars, prog, env, enabled, src, run, keys, index, filesToTranslate,
                   requested, failedLog, skipLog, prevClean>>

\* writeFile rejects (disk full, no permission): the catch block logs it
WriteFails ==
    /\ prog = "script" /\ pc = "write"
    /\ failedLog' = failedLog \cup {<<Dir, Entry.file>>}
    /\ CatchAndContinue(pos, filesToTranslate)
    /\ UNCHANGED <<apiVars, fileVars, hookVars, prog, env, enabled, src, out, run, keys, index, filesToTranslate,
                   requested, written, doneLog, skipLog, prevClean, untranslated>>

\* the build runs the script again, over the same sources
Rerun ==
    /\ prog = "script" /\ pc = "exit"
    /\ run < MaxRuns
    /\ run' = run + 1
    /\ pc' = "main"
    /\ prevClean' = (failedLog = {})
    /\ requested' = {} /\ written' = {} /\ failedLog' = {} /\ doneLog' = {}
    /\ skipLog' = {}
    /\ filesToTranslate' = <<>> /\ pos' = 0 /\ cur' = NoCur
    /\ UNCHANGED <<apiVars, fileVars, hookVars, prog, env, enabled, src, out, dirIdx, keys, index,
                   untranslated>>

(***************************************************************************)
(* src/integrations/astro-translate.ts: the astro:build:start hook and its *)
(* translateDirectory.  translateMarkdown makes one request and succeeds   *)
(* when the response is ok and carries data.                               *)
(***************************************************************************)
translateMarkdown(content, outcome) ==
    IF outcome = "ok" THEN [success |-> TRUE, content |-> Data(content, outcome)]
    ELSE [success |-> FALSE, content |-> Undefined]

\* "astro:build:start": the two early returns, else the loop over contentDirs
Hook ==
    /\ prog = "integration" /\ pc = "main"
    /\ IF ~enabled \/ ~IsSetEnv(env.DEEPLX_API_KEY)
       THEN pc' = "exit" /\ UNCHANGED dirIdx
       ELSE pc' = "readdir" /\ dirIdx' = 1
    /\ UNCHANGED <<apiVars, fileVars, prog, env, enabled, src, out, run, pos, requested, written,
                   failedLog, skipLog, scriptVars, hookVars>>

\* the hook's loop: add the directory's result to the totals, go on
HookNext(result) ==
    /\ counters' = [translated |-> 0, skipped |-> 0,
                    totalTranslated |-> counters.totalTranslated + result.translated,
                    totalSkipped |-> counters.totalSkipped + result.skipped]
    /\ IF dirIdx < Len(ContentDirs) THEN pc' = "readdir" /\ dirIdx' = dirIdx + 1
       ELSE pc' = "exit" /\ dirIdx' = dirIdx

\* the integration's translateDirectory: readdir fails
HookDirectoryNotFound ==
    /\ prog = "integration" /\ pc = "readdir"
    /\ ~src[Dir].exists
    /\ HookNext([translated |-> 0, skipped |-> 0])
    /\ UNCHANGED <<apiVars, fileVars, prog, env, enabled, src, out, run, pos, requested, written,
                   failedLog, skipLog, scriptVars, translationCache, mdFiles>>

\* the integration's translateDirectory: readdir and the filter
HookReadDirectory ==
    /\ prog = "integration" /\ pc = "readdir"
    /\ src[Dir].exists
    /\ mdFiles' = SelectSeq(readdir(src[Dir].entries), IsMarkdown)
    /\ pos' = 1
    /\ pc' = "file"
    /\ UNCHANGED <<apiVars, fileVars, prog, env, enabled, src, out, run, dirIdx, requested, written,
                   failedLog, skipLog, scriptVars, translationCache, counters>>

\* the end of the for loop: return { translated, skipped }
HookDirectoryDone ==
    /\ prog = "integration" /\ pc = "file"
    /\ pos > Len(mdFiles)
    /\ HookNext(counters)
    /\ UNCHANGED <<apiVars, fileVars, prog, env, enabled, src, out, run, pos, requested, written,
                   failedLog, skipLog, scriptVars, translationCache, mdFiles>>

HookFile == mdFiles[pos]
HookDoc == src[Dir].entries[HookFile].doc
HookHash == hashContent(HookDoc.content)
AtHookFile(kind) ==
    /\ prog = "integration" /\ pc = "file"
    /\ pos <= Len(mdFiles)
    /\ src[Dir].entries[HookFile].kind = kind

\* a mutant of the cache test: the cache is never consulted
NeverCached(cache, hash) == FALSE

\* translationCache.has(contentHash)
CacheHas(cache, hash) == hash \in DOMAIN cache

\* if (fileStat.isDirectory()) continue
HookSkipDirectory ==
    /\ AtHookFile("dir")
    /\ pos' = pos + 1
    /\ UNCHANGED <<apiVars, fileVars, prog, env, enabled, src, out, pc, run, dirIdx, requested, written,
                   failedLog, skipLog, scriptVars, hookVars>>

\* the cached text is written again; skipped++
HookCacheHit ==
    /\ AtHookFile("file")
    /\ CacheHas(translationCache, HookHash)
    /\ out' = [out EXCEPT ![Dir][HookFile] = translationCache[HookHash]]
    /\ written' = written \cup {<<Dir, HookFile>>}
    /\ skipLog' = skipLog \cup {<<Dir, HookFile>>}
    /\ counters' = [counters EXCEPT !.skipped = @ + 1]
    /\ pos' = pos + 1
    /\ UNCHANGED <<apiVars, fileVars, prog, env, enabled, src, pc, run, dirIdx, requested, failedLog,
                   scriptVars, translationCache, mdFiles>>

\* the output file carries the hash of the source; skipped++
HookUpToDate ==
    /\ AtHookFile("file")
    /\ ~CacheHas(translationCache, HookHash)
    /\ IsCached(HookDoc, out[Dir][HookFile])
    /\ skipLog' = skipLog \cup {<<Dir, HookFile>>}
    /\ counters' = [counters EXCEPT !.skipped = @ + 1]
    /\ pos' = pos + 1
    /\ UNCHANGED <<apiVars, fileVars, prog, env, enabled, src, out, pc, run, dirIdx, requested, written,
                   failedLog, scriptVars, translationCache, mdFiles>>

NeedsHookTranslation ==
    /\ AtHookFile("file")
    /\ ~CacheHas(translationCache, HookHash)
    /\ ~IsCached(HookDoc, out[Dir][HookFile])

\* matter(content) throws: translateDirectory rejects, the hook logs the
\* error and goes on with the next directory, the counts of this one lost
HookParseThrows ==
    /\ NeedsHookTranslation
    /\ HookDoc.bad
    /\ failedLog' = failedLog \cup {<<Dir, HookFile>>}
    /\ HookNext([translated |-> 0, skipped |-> 0])
    /\ UNCHANGED <<apiVars, fileVars, prog, env, enabled, src, out, run, pos, requested, written,
                   skipLog, scriptVars, translationCache, mdFiles>>

\* a mutant of the failure branch: break, the rest of the directory is left
Break(p) == Len(mdFiles) + 1

\* continue: the for loop takes the next file
Continue(p) == p + 1

\* if (!result.success) { logger.error(...); continue; }
HookBodyFails ==
    /\ NeedsHookTranslation
    /\ ~HookDoc.bad
    /\ \E outcome \in Outcomes :
          ~translateMarkdown(Join(HookDoc.paragraphs), outcome).success
    /\ requested' = requested \cup {<<Dir, HookFile>>}
    /\ failedLog' = failedLog \cup {<<Dir, HookFile>>}
    /\ pos' = Continue(pos)
    /\ UNCHANGED <<apiVars, fileVars, prog, env, enabled, src, out, pc, run, dirIdx, written, skipLog,
                   scriptVars, hookVars>>

\* if (frontmatter.title) { titleResult = await translateMarkdown(...);
\* if (titleResult.success) ... }: the request was made and succeeded
HookSucceeds(old, outcome) == Truthy(old) /\ translateMarkdown(old, outcome).success

\* the translated title or description, or the source's when that fails
HookRetitle(old, outcome) ==
    IF Truthy(old) /\ translateMarkdown(old, outcome).success
    THEN Trim(translateMarkdown(old, outcome).content)
    ELSE old

\* the body is translated; title and description are tried; the file is
\* written and cached; translated++
HookTranslated ==
    /\ NeedsHookTranslation
    /\ ~HookDoc.bad
    /\ \E ot \in Outcomes, od \in Outcomes :
          LET result == translateMarkdown(Join(HookDoc.paragraphs), "ok")
              text == OutFile(HookHash, HookRetitle(HookDoc.title, ot),
                              HookRetitle(HookDoc.description, od), result.content)
          IN  /\ out' = [out EXCEPT ![Dir][HookFile] = text]
              /\ translationCache' = (HookHash :> text) @@ translationCache
              /\ cur' = [stage |-> "written",
                         titleSuccess |-> HookSucceeds(HookDoc.title, ot),
                         descSuccess |-> HookSucceeds(HookDoc.description, od)]
    /\ requested' = requested \cup {<<Dir, HookFile>>}
    /\ written' = written \cup {<<Dir, HookFile>>}
    /\ counters' = [counters EXCEPT !.translated = @ + 1]
    /\ pos' = pos + 1
    /\ UNCHANGED <<apiVars, fileVars, prog, env, enabled, src, pc, run, dirIdx, failedLog, skipLog,
                   keys, index, filesToTranslate, doneLog, prevClean, untranslated, mdFiles>>

(***************************************************************************)
(* Initial states of the script.                                           *)
(***************************************************************************)
\* an output file left by an earlier run or by hand
Stale(marker) == OutFile(marker, <<>>, <<>>, <<>>)
NoMarker == <<>>

AllNames == SeqToSet(DirOrder)
EmptyListing == [f \in AllNames |-> NoEntry]

\* the post directory: two markdown entries that are absent, a directory or a
\* document each, next to a file that is no markdown
PostListings ==
    {[EmptyListing EXCEPT ![Meng] = m, ![Dream] = d, ![Readme] = File(DocA)] :
        m \in {NoEntry, SubDir} \cup {File(x) : x \in Docs},
        d \in {NoEntry, SubDir} \cup {File(x) : x \in Docs}}

\* the note directory: missing, or holding one document
NoteDirs ==
    {[exists |-> FALSE, entries |-> EmptyListing],
     [exists |-> TRUE, entries |-> [EmptyListing EXCEPT ![About] = File(DocZ)]]}

StaleFiles == {NoEntry, Stale(NoMarker)} \cup {Stale(hashContent(x.content)) : x \in Docs}

ScriptEnvs ==
    {[DEEPLX_API_KEYS |-> Undefined, DEEPLX_API_KEY |-> Undefined],
     [DEEPLX_API_KEYS |-> <<"">>, DEEPLX_API_KEY |-> <<"k1">>],
     [DEEPLX_API_KEYS |-> <<"k1", " ", "k2">>, DEEPLX_API_KEY |-> Undefined],
     [DEEPLX_API_KEYS |-> <<"", "">>, DEEPLX_API_KEY |-> Undefined]}

InitCommon ==
    /\ pc = "main" /\ run = 1 /\ dirIdx = 1
    /\ keys = <<>> /\ index = 0
    /\ filesToTranslate = <<>> /\ pos = 0 /\ cur = NoCur
    /\ requested = {} /\ written = {} /\ failedLog = {} /\ doneLog = {}
    /\ skipLog = {}
    /\ prevClean = FALSE /\ untranslated = {}
    /\ translationCache = <<>> /\ mdFiles = <<>>
    /\ counters = [translated |-> 0, skipped |-> 0, totalTranslated |-> 0,
                   totalSkipped |-> 0]
    /\ tasks = <<>> /\ batchStart = 0 /\ keyLog = <<>>
    /\ request = Undefined /\ handler = "idle" /\ response = Undefined
    /\ fetches = 0 /\ returned = Undefined /\ served = <<>>

InitScript ==
    /\ prog = "script"
    /\ enabled = TRUE
    /\ env \in ScriptEnvs
    /\ \E p \in PostListings, n \in NoteDirs :
          src = [d \in SeqToSet(ContentDirs) |->
                    IF d = "post" THEN [exists |-> TRUE, entries |-> p] ELSE n]
    /\ \E o \in StaleFiles, a \in {NoEntry, Stale(hashContent(DocZ.content))} :
          /\ src["note"].exists \/ a = NoEntry
          /\ out = [d \in SeqToSet(ContentDirs) |->
                       IF d = "post" THEN [EmptyListing EXCEPT ![Dream] = o]
                       ELSE [EmptyListing EXCEPT ![About] = a]]
    /\ InitCommon

\* the integration's configurations: the option and DEEPLX_API_KEY
HookConfigs ==
    {<<TRUE, <<"k1">>>>, <<FALSE, <<"k1">>>>, <<TRUE, Undefined>>, <<TRUE, <<"">>>>}

InitHook ==
    /\ prog = "integration"
    /\ \E c \in HookConfigs :
          /\ enabled = c[1]
          /\ env = [DEEPLX_API_KEYS |-> <<"k9">>, DEEPLX_API_KEY |-> c[2]]
    /\ \E p \in PostListings, n \in NoteDirs :
          src = [d \in SeqToSet(ContentDirs) |->
                    IF d = "post" THEN [exists |-> TRUE, entries |-> p] ELSE n]
    /\ \E m \in StaleFiles, o \in StaleFiles :
          out = [d \in SeqToSet(ContentDirs) |->
                    IF d = "post" THEN [EmptyListing EXCEPT ![Meng] = m, ![Dream] = o]
                    ELSE EmptyListing]
    /\ InitCommon

Init == InitScript \/ InitHook

Next ==
    \/ Main \/ DirectoryNotFound \/ ScanDirectory
    \/ StartFile \/ TranslateBody \/ TranslateMeta \/ WriteFile \/ WriteFails
    \/ Rerun
    \/ Hook \/ HookDirectoryNotFound \/ HookReadDirectory \/ HookDirectoryDone
    \/ HookSkipDirectory \/ HookCacheHit \/ HookUpToDate
    \/ HookParseThrows \/ HookBodyFails \/ HookTranslated

Spec == Init /\ [][Next]_vars

(***************************************************************************)
(* FileSpec: one queued file of the script, request by request.            *)
(*                                                                         *)
(* cur holds the parsed file (title, description, paragraphs) and the      *)
(* translated paragraphs so far.  tasks[t] is the work on text t: texts    *)
(* 1..P are the paragraphs, P + 1 the title and P + 2 the description.     *)
(* An async function runs without interruption up to its next await, so    *)
(* the steps are: the start of a batch (every first request of the batch   *)
(* is issued), a response, the end of a retry delay, the end of            *)
(* Promise.all.                                                            *)
(***************************************************************************)
P == Len(cur.paragraphs)
TitleTask == P + 1
DescTask == P + 2
TextOf(t) ==
    IF t <= P THEN cur.paragraphs[t]
    ELSE IF t = TitleTask THEN cur.title ELSE cur.description

Pending == [state |-> "pending", called |-> FALSE, text |-> Undefined, attempt |-> 0,
            requests |-> 0, key |-> UndefinedKey, okSeen |-> FALSE,
            value |-> Undefined]

\* a call whose promise was awaited and its value taken
Collected == [Pending EXCEPT !.state = "collected"]

\* the task returns `value` without (further) request
Resolved(task, value) == [task EXCEPT !.state = "done", !.value = value]

\* a mutant of the retry loop's bound: one iteration too many
LoopGoesOnOnceMore(i, retries) == i <= retries

\* for (let i = 0; i < retries; i++)
LoopGoesOn(i, retries) == i < retries

\* a mutant of the handling of a failed request: an exception thrown by
\* fetch or response.json() escapes translateText
EscapingFailure(outcome) == IF outcome = "throw" THEN "threw" ELSE "sleeping"

\* !response.ok and data.code !== 200 wait 500 ms and continue; the catch
\* block waits 500 ms: in each case the call sleeps, then the loop goes on
AfterFailure(outcome) == "sleeping"

\* return data.data
AfterSuccess(task, text, outcome) ==
    [task EXCEPT !.state = "done", !.okSeen = TRUE, !.value = Data(text, outcome)]

\* one iteration of translateText's loop up to its await: getNextKey, fetch.
\* ks, i: the KeyManager before the call
Fetching(task, ks, i) ==
    [task EXCEPT !.state = "inflight", !.requests = @ + 1, !.key = KeyAt(ks, i)]

\* translateText(text, keyManager) from its call to its first await
CallTranslateText(task, text, ks, i) ==
    LET call == [task EXCEPT !.called = TRUE, !.text = text]
    IN  IF IsBlankText(text) THEN Resolved(call, text)
        ELSE IF LoopGoesOn(0, RETRIES) THEN Fetching(call, ks, i)
        ELSE Resolved(call, Null)

\* the callback of batch.map, up to its first await
StartParagraph(task, text, ks, i) ==
    IF ShouldSkip(text) THEN Resolved(task, text)
    ELSE CallTranslateText(task, text, ks, i)

\* frontmatter.title ? translateText(frontmatter.title, keyManager)
\*                   : Promise.resolve(null)
StartMetaText(task, text, ks, i) ==
    IF Truthy(text) THEN CallTranslateText(task, text, ks, i)
    ELSE Resolved(task, Null)

\* the tasks `order` started one after the other, as batch.map and the array
\* given to Promise.all do; each fetch takes the next key
RECURSIVE StartAll(_, _, _, _, _)
StartAll(ts, order, ks, i, log) ==
    IF order = <<>> THEN [tasks |-> ts, index |-> i, keyLog |-> log]
    ELSE LET t == Head(order)
             started == IF t <= P THEN StartParagraph(ts[t], TextOf(t), ks, i)
                        ELSE StartMetaText(ts[t], TextOf(t), ks, i)
             fetched == started.state = "inflight"
         IN  StartAll([ts EXCEPT ![t] = started], Tail(order), ks,
                      IF fetched THEN NextIndex(ks, i) ELSE i,
                      IF fetched THEN Append(log, started.key) ELSE log)

\* texts.slice(i, i + CONCURRENCY), as task numbers
BatchOf(i) == {t \in 1..P : i < t /\ t <= i + CONCURRENCY}
SeqOfRange(a, b) == [k \in 1..(IF b >= a THEN b - a + 1 ELSE 0) |-> a + k - 1]

IsFile == prog = "file"

\* a mutant of the await: the loop goes on when one promise of the batch
\* has resolved
BatchResolvedEarly(i) == \E t \in BatchOf(i) : tasks[t].state = "done"

\* await Promise.all(batchPromises): every promise of the batch has resolved
BatchResolved(i) == \A t \in BatchOf(i) : tasks[t].state = "done"

\* the loop is at the top of an iteration: i < texts.length
BatchMayStart == pc = "batch" /\ batchStart < P

\* batchPromises = batch.map(async ...)
StartBatch ==
    /\ IsFile
    /\ BatchMayStart
    /\ LET lo == batchStart + 1
           hi == IF batchStart + CONCURRENCY < P THEN batchStart + CONCURRENCY ELSE P
           r == StartAll(tasks, SeqOfRange(lo, hi), keys, index, keyLog)
       IN  /\ tasks' = r.tasks
           /\ index' = r.index
           /\ keyLog' = r.keyLog
    /\ pc' = "await"
    /\ UNCHANGED <<batchStart, cur, keys>>

\* a response arrives (or fetch throws) for the request of task t
Respond(t) ==
    /\ IsFile
    /\ tasks[t].state = "inflight"
    /\ \E outcome \in Outcomes :
          tasks' = [tasks EXCEPT ![t] =
                      IF outcome \in Successes THEN AfterSuccess(@, TextOf(t), outcome)
                      ELSE [@ EXCEPT !.state = AfterFailure(outcome)]]
    /\ UNCHANGED <<batchStart, cur, keys, index, keyLog, pc>>

\* the 500 ms are over: i++, and the next iteration or `return null`
Wake(t) ==
    /\ IsFile
    /\ tasks[t].state = "sleeping"
    /\ LET i == tasks[t].attempt + 1
           task == [tasks[t] EXCEPT !.attempt = i]
       IN  IF LoopGoesOn(i, RETRIES)
           THEN /\ tasks' = [tasks EXCEPT ![t] = Fetching(task, keys, index)]
                /\ keyLog' = Append(keyLog, KeyAt(keys, index))
                /\ index' = NextIndex(keys, index)
           ELSE /\ tasks' = [tasks EXCEPT ![t] =
                               Resolved(task, IF task.okSeen THEN task.value ELSE Null)]
                /\ UNCHANGED <<keyLog, index>>
    /\ UNCHANGED <<batchStart, cur, keys, pc>>

\* the place of r among the sorted results: after every result with a
\* smaller index, and after the equal ones that stand before it
RECURSIVE SortByIndex(_)
SortByIndex(results) ==
    IF results = <<>> THEN <<>>
    ELSE LET n == Len(results)
             last == results[n]
             rest == SortByIndex(SubSeq(results, 1, n - 1))
             before == SelectSeq(rest, LAMBDA r : r.index <= last.index)
             after == SelectSeq(rest, LAMBDA r : r.index > last.index)
         IN  before \o <<last>> \o after

\* a mutant of the comparison: b.index - a.index
SortedDescending(results) ==
    LET sorted == SortByIndex(results)
    IN  [k \in 1..Len(sorted) |-> sorted[Len(sorted) + 1 - k].result]

\* results.sort((a, b) => a.index - b.index); return results.map(r => r.result)
SortedResults(results) ==
    LET sorted == SortByIndex(results)
    IN  [k \in 1..Len(sorted) |-> sorted[k].result]

\* { index: i + idx, result: translated || text } of the paragraph of task t
BatchResult(t) == [index |-> t - 1, result |-> OrElse(tasks[t].value, TextOf(t))]

\* await Promise.all(batchPromises); results.push(...batchResults); the
\* delay between batches; i += CONCURRENCY.  After the last batch the sorted
\* results are returned.
FinishBatch ==
    /\ IsFile
    /\ pc = "await"
    /\ BatchResolved(batchStart)
    /\ LET results == cur.results
                          \o [k \in 1..Cardinality(BatchOf(batchStart)) |->
                                 BatchResult(batchStart + k)]
       IN  cur' = [cur EXCEPT
                     !.results = results,
                     !.body = IF batchStart + CONCURRENCY < P THEN @
                              ELSE SortedResults(results)]
    /\ tasks' = [t \in DOMAIN tasks |->
                    IF t \in BatchOf(batchStart) /\ tasks[t].state = "done"
                    THEN Collected ELSE tasks[t]]
    /\ batchStart' = batchStart + CONCURRENCY
    /\ pc' = "batch"
    /\ UNCHANGED <<keys, index, keyLog>>

\* translateBatch has returned: Promise.all([title, description])
StartMeta ==
    /\ IsFile
    /\ pc = "batch" /\ batchStart >= P
    /\ LET r == StartAll(tasks, <<TitleTask, DescTask>>, keys, index, keyLog)
       IN  /\ tasks' = r.tasks
           /\ index' = r.index
           /\ keyLog' = r.keyLog
    /\ pc' = "awaitMeta"
    /\ UNCHANGED <<batchStart, cur, keys>>

\* both have resolved: the frontmatter is updated and the file written
FinishFile ==
    /\ IsFile
    /\ pc = "awaitMeta"
    /\ tasks[TitleTask].state = "done" /\ tasks[DescTask].state = "done"
    /\ cur' = [cur EXCEPT !.stage = "written",
                          !.title = Retitle(@, tasks[TitleTask].value),
                          !.description = Retitle(@, tasks[DescTask].value)]
    /\ pc' = "done"
    /\ UNCHANGED <<tasks, batchStart, keys, index, keyLog>>

(***************************************************************************)
(* Initial states of FileSpec: a parsed file and a KeyManager.             *)
(***************************************************************************)
MaxParas == 6

\* a file's paragraphs, title and description, and the keys of the KeyManager
Job(ps, t, d, ks) == [paragraphs |-> ps, title |-> t, description |-> d, keys |-> ks]

\* short bodies: one paragraph of each kind, and pairs that put two
\* translateText calls, or a passed-through paragraph and a call, in a batch
ShortBodies ==
    {<<a>> : a \in {Plain, CodeFence, Indented, Html, Blank, Empty}}
        \cup {<<Plain, Plain>>, <<Plain, CodeFence>>, <<Blank, Plain>>, <<Plain, Word>>}

Titles == {<<>>, <<"T">>, <<" ">>}
Descriptions == {<<>>, <<"D">>}
KeyLists == {<<>>, <<"k1">>, <<"k1", "k2">>, <<"k1", "k2", "k3">>}

\* the files FileSpec starts from: the short bodies under every title,
\* description and key list, and a body of MaxParas paragraphs of text, which
\* fills a batch of CONCURRENCY calls and leaves a rest for a second batch
Jobs ==
    {Job(ps, t, d, ks) : ps \in ShortBodies, t \in Titles, d \in Descriptions,
                         ks \in KeyLists}
        \cup {Job([k \in 1..MaxParas |-> Plain], <<>>, <<>>, <<"k1">>)}

InitFile ==
    /\ prog = "file"
    /\ enabled = TRUE
    /\ env = [DEEPLX_API_KEYS |-> <<"k1">>, DEEPLX_API_KEY |-> Undefined]
    /\ src = <<>> /\ out = <<>>
    /\ pc = "batch" /\ run = 1 /\ dirIdx = 1
    /\ index = 0
    /\ filesToTranslate = <<>> /\ pos = 0
    /\ \E job \in Jobs :
          /\ keys = job.keys
          /\ cur = [stage |-> "parsed", title |-> job.title,
                    description |-> job.description,
                    paragraphs |-> job.paragraphs, results |-> <<>>, body |-> <<>>]
          /\ tasks = [k \in 1..(Len(job.paragraphs) + 2) |-> Pending]
    /\ requested = {} /\ written = {} /\ failedLog = {} /\ doneLog = {}
    /\ skipLog = {}
    /\ prevClean = FALSE /\ untranslated = {}
    /\ translationCache = <<>> /\ mdFiles = <<>>
    /\ counters = [translated |-> 0, skipped |-> 0, totalTranslated |-> 0,
                   totalSkipped |-> 0]
    /\ batchStart = 0 /\ keyLog = <<>>
    /\ request = Undefined /\ handler = "idle" /\ response = Undefined
    /\ fetches = 0 /\ returned = Undefined /\ served = <<>>

fileFrame ==
    <<apiVars, prog, env, enabled, src, out, run, dirIdx, filesToTranslate, pos, requested,
      written, failedLog, doneLog, skipLog, prevClean, untranslated, hookVars>>

FileNext ==
    \/ (StartBatch /\ UNCHANGED fileFrame)
    \/ (\E t \in DOMAIN tasks : Respond(t) /\ UNCHANGED fileFrame)
    \/ (\E t \in DOMAIN tasks : Wake(t) /\ UNCHANGED fileFrame)
    \/ (FinishBatch /\ UNCHANGED fileFrame)
    \/ (StartMeta /\ UNCHANGED fileFrame)
    \/ (FinishFile /\ UNCHANGED fileFrame)

FileSpec == InitFile /\ [][FileNext]_vars

(***************************************************************************)
(* ApiSpec: src/pages/api/translate.ts, the POST handler that passes one   *)
(* text to the translation service.  The handler is one try block with     *)
(* three awaits: request.json(), fetch(...), response.json().              *)
(*                                                                         *)
(* A JSON text is what JSON.parse makes of it: NotJson when it does not    *)
(* parse, JsonNull, or an object given by the fields the handler reads.    *)
(***************************************************************************)
NotJson == [kind |-> "invalid"]
JsonNull == [kind |-> "null"]

\* a request body that is an object; a field that is absent is Undefined
RequestBody(text, targetLang) ==
    [kind |-> "object", text |-> text, targetLang |-> targetLang]

\* an upstream body that is an object; a message that is absent or empty is ""
UpstreamBody(code, message, data) ==
    [kind |-> "object", code |-> code, message |-> message, data |-> data]

\* what an expression evaluates to: a value, or an exception
Thrown == [kind |-> "thrown"]

\* the null body statuses of the Fetch standard
NullBodyStatus == {101, 103, 204, 205, 304}

\* new Response(body, { status }) with a body that is not null: a RangeError
\* for a status outside 200..599, a TypeError for a null body status
NewResponse(body, status) ==
    IF status < 200 \/ status > 599 \/ status \in NullBodyStatus THEN Thrown
    ELSE [kind |-> "response", status |-> status, body |-> body]

\* catch (e) { return new Response({ error: "Internal server error" }, 500) }
Catch(e) == NewResponse([error |-> "Internal server error"], 500)

\* the value of an expression inside the try block: what it throws is caught
Try(result) == IF result = Thrown THEN Catch(result) ELSE result

\* response.ok
IsOk(status) == status >= 200 /\ status <= 299

\* a mutant of the test of the text: only a missing text is refused
IsMissing(text) == text = Undefined

\* if (!text)
NoText(text) == ~Truthy(text)

\* const { text, targetLang = "EN" } = body
TargetLang(body) ==
    IF body.targetLang = Undefined THEN <<"E", "N">> ELSE body.targetLang

\* the body of the upstream request
UpstreamRequest(body) ==
    [text |-> body.text, source_lang |-> "auto", target_lang |-> TargetLang(body)]

\* the requests a client can send
Requests ==
    {NotJson, JsonNull}
        \cup {RequestBody(t, l) : t \in {Undefined, Null, Empty, Blank, Plain},
                                  l \in {Undefined, <<"D", "E">>}}

\* the statuses the service can answer with; 999 stands for the three-digit
\* statuses above 599
UpstreamStatuses == {200, 204, 304, 404, 429, 503, 999}
NoCode == 0

\* the bodies the service can send with an ok status
UpstreamBodies ==
    {NotJson, JsonNull}
        \cup {UpstreamBody(c, m, d) : c \in {200, 500, NoCode}, m \in {"", "quota"},
                                      d \in {Undefined, Data(Plain, "ok")}}

\* what fetch can settle with: a rejection, or a response; the body of a
\* response that is not ok is never read
FetchThrows == [kind |-> "thrown", status |-> 0, body |-> NotJson]
FetchResults ==
    {FetchThrows}
        \cup {[kind |-> "response", status |-> st, body |-> b] :
                 st \in {x \in UpstreamStatuses : IsOk(x)}, b \in UpstreamBodies}
        \cup {[kind |-> "response", status |-> st, body |-> NotJson] :
                 st \in {x \in UpstreamStatuses : ~IsOk(x)}}

MaxRequests == 2

IsApi == prog = "api"

\* the handler's promise settles with `result`
Return(result) ==
    /\ returned' = result
    /\ handler' = "returned"

\* a request arrives and POST is called: it runs up to await request.json()
Receive ==
    /\ IsApi /\ handler = "idle"
    /\ Len(served) < MaxRequests
    /\ request' \in Requests
    /\ handler' = "json"
    /\ fetches' = 0
    /\ response' = Undefined /\ returned' = Undefined
    /\ UNCHANGED served

\* request.json() has settled: the text is tested and the fetch issued
ReadRequest ==
    /\ IsApi /\ handler = "json"
    /\ IF request \in {NotJson, JsonNull}
       THEN Return(Catch(Thrown)) /\ UNCHANGED fetches
       ELSE IF NoText(request.text)
       THEN /\ Return(Try(NewResponse([error |-> "No text provided"], 400)))
            /\ UNCHANGED fetches
       ELSE /\ handler' = "fetch"
            /\ fetches' = fetches + 1
            /\ UNCHANGED returned
    /\ UNCHANGED <<request, response, served>>

\* fetch has settled: a rejection is caught, a response that is not ok is
\* answered at once, an ok one is read
FetchSettles ==
    /\ IsApi /\ handler = "fetch"
    /\ \E r \in FetchResults :
          /\ response' = r
          /\ IF r.kind = "thrown" THEN Return(Catch(Thrown))
             ELSE IF ~IsOk(r.status)
             THEN Return(Try(NewResponse([error |-> "DeepLX failed"], r.status)))
             ELSE handler' = "data" /\ UNCHANGED returned
    /\ UNCHANGED <<request, fetches, served>>

\* response.json() has settled
ReadData ==
    /\ IsApi /\ handler = "data"
    /\ LET data == response.body
       IN  IF data \in {NotJson, JsonNull} THEN Return(Catch(Thrown))
           ELSE IF data.code # 200
           THEN Return(Try(NewResponse(
                    [error |-> IF data.message # "" THEN data.message
                               ELSE "Translation failed"], 500)))
           ELSE Return(Try(NewResponse([translatedText |-> data.data], 200)))
    /\ UNCHANGED <<request, response, fetches, served>>

\* the answer is sent; the server waits for the next request
Answer ==
    /\ IsApi /\ handler = "returned"
    /\ served' = Append(served, IF returned = Thrown THEN 0 ELSE returned.status)
    /\ handler' = "idle"
    /\ UNCHANGED <<request, response, fetches, returned>>

InitApi ==
    /\ prog = "api"
    /\ enabled = TRUE
    /\ env = [DEEPLX_API_KEYS |-> Undefined, DEEPLX_API_KEY |-> Undefined]
    /\ src = <<>> /\ out = <<>>
    /\ InitCommon

apiFrame == <<progVars, fileVars>>

ApiNext ==
    \/ (Receive /\ UNCHANGED apiFrame)
    \/ (ReadRequest /\ UNCHANGED apiFrame)
    \/ (FetchSettles /\ UNCHANGED apiFrame)
    \/ (ReadData /\ UNCHANGED apiFrame)
    \/ (Answer /\ UNCHANGED apiFrame)

ApiSpec == InitApi /\ [][ApiNext]_vars

(***************************************************************************)
(*                              PROPERTIES                                 *)
(***************************************************************************)
IsScript == prog = "script"
IsHook == prog = "integration"

\* the source files of a directory that translateDirectory looks at
MarkdownFilesOf(d) ==
    {f \in AllNames : IsMarkdown(f) /\ src[d].entries[f].kind = "file"}

\* the directory filesToTranslate was collected from
QueueDir == IF pc = "readdir" /\ dirIdx > 1 THEN ContentDirs[dirIdx - 1] ELSE Dir

\* C1: in the script's translateDirectory a source file whose output file
\* exists with a first hash marker equal to hashContent of the source is
\* skipped: no request is issued for it and its output file is not written
\* in that run.  (skipLog holds exactly the files the scan found so.)
C1_SkippedFileUntouched ==
    IsScript =>
        \A e \in skipLog :
            /\ e \notin requested
            /\ <<e[1], getOutputFileName(e[2])>> \notin written

\* C2: the scan queues a source file if and only if its output file cannot
\* be read, or has no hash marker, or has a marker that differs from
\* hashContent of the source; and a queued file that is written gets the hash
\* of the current source as its marker.
C2_QueuedIffStale ==
    [][(ScanDirectory =>
            \A f \in MarkdownFilesOf(Dir) :
                LET existing == out[Dir][getOutputFileName(f)]
                    contentHash == hashContent(src[Dir].entries[f].doc.content)
                IN  (f \in {filesToTranslate'[i].file : i \in 1..Len(filesToTranslate')})
                        <=> \/ existing.kind # "file"
                            \/ MatchHash(existing.marker) = Undefined
                            \/ MatchHash(existing.marker) # contentHash)
       /\ (WriteFile =>
            LET g == Entry.file
            IN  /\ out'[Dir][getOutputFileName(g)].kind = "file"
                /\ MatchHash(out'[Dir][getOutputFileName(g)].marker)
                       = hashContent(src[Dir].entries[g].doc.content))]_vars

\* C2 witness: the scan has queued a file whose output file exists and
\* carries the marker of another content
C2_Witness ==
    /\ IsScript /\ pc = "file" /\ pos = 1
    /\ \E i \in 1..Len(filesToTranslate) :
          LET existing == out[Dir][filesToTranslate[i].outputFileName]
          IN  /\ existing.kind = "file"
              /\ MatchHash(existing.marker) # Undefined
              /\ MatchHash(existing.marker) # filesToTranslate[i].contentHash

\* C3: after a run of the script in which every queued file was written
\* without exception, the next run over the unchanged sources issues no
\* request and writes no file, whatever the source file names are.
C3_SecondRunIdle ==
    (IsScript /\ run > 1 /\ prevClean) => requested = {} /\ written = {}

\* C8: an exception while one queued file is processed is caught and logged;
\* every queued file before the loop's position is logged as done or as
\* failed, and the run ends only after the last directory's last file.
C8_LaterFilesProcessed ==
    IsScript =>
        /\ \A i \in 1..Len(filesToTranslate) :
              i < pos =>
                  <<QueueDir, filesToTranslate[i].file>> \in failedLog \cup doneLog
        /\ (pc = "exit" /\ IsSetEnv(KeysEnv(env))) =>
              dirIdx = Len(ContentDirs) /\ pos = Len(filesToTranslate) + 1
        /\ (pc = "readdir" /\ dirIdx > 1) => pos = Len(filesToTranslate) + 1

\* C8 witness: a queued file failed and a later file of the same queue is done
C8_Witness ==
    /\ IsScript
    /\ \E i, j \in 1..Len(filesToTranslate) :
          /\ i < j
          /\ <<QueueDir, filesToTranslate[i].file>> \in failedLog
          /\ <<QueueDir, filesToTranslate[j].file>> \in doneLog

\* the program has done nothing: no directory read, no request, no file written
NothingDone ==
    /\ pc \in {"main", "exit"}
    /\ requested = {} /\ written = {} /\ skipLog = {} /\ failedLog = {}
    /\ doneLog = {} /\ filesToTranslate = <<>> /\ mdFiles = <<>>
    /\ translationCache = <<>>

\* C9: without an API key nothing is translated: the script's main returns
\* at once when neither DEEPLX_API_KEYS nor DEEPLX_API_KEY is set, and so does
\* the build hook when DEEPLX_API_KEY is unset or enabled is false.
C9_NoKeyNothingDone ==
    /\ (IsScript /\ env.DEEPLX_API_KEYS = Undefined /\ env.DEEPLX_API_KEY = Undefined)
          => NothingDone
    /\ (IsHook /\ (env.DEEPLX_API_KEY = Undefined \/ ~enabled)) => NothingDone

\* C9 witness: the program has returned without a key although a directory
\* holds a file to translate
C9_Witness ==
    /\ pc = "exit"
    /\ env.DEEPLX_API_KEY = Undefined
    /\ IsScript => env.DEEPLX_API_KEYS = Undefined
    /\ \E f \in MarkdownFilesOf("post") : out["post"][getOutputFileName(f)] = NoEntry

\* C10: when translationCache holds an entry for the hash of a source file,
\* the integration writes the cached text to the file's output path, issues
\* no request for it, and counts it as skipped, not as translated.
C10_CacheHitWritesCached ==
    [][(AtHookFile("file") /\ hashContent(HookDoc.content) \in DOMAIN translationCache)
          => /\ out'[Dir][HookFile] = translationCache[hashContent(HookDoc.content)]
             /\ requested' = requested
             /\ counters'.skipped = counters.skipped + 1
             /\ counters'.translated = counters.translated]_vars

\* C10 witness: a file was written from the cache and counted as skipped
C10_Witness ==
    /\ IsHook
    /\ \E e \in skipLog \cap written : out[e[1]][e[2]] \in {translationCache[h] : h \in DOMAIN translationCache}

(***************************************************************************)
(* Properties of FileSpec.                                                 *)
(***************************************************************************)
Live(task) == task.state \in {"inflight", "sleeping"}
InFlight == {t \in DOMAIN tasks : tasks[t].state = "inflight"}

\* what a translateText call still has before it: it falls with every step
Rank(task) ==
    IF ~Live(task) THEN 0
    ELSE 2 * (RETRIES - task.attempt) + (IF task.state = "inflight" THEN 1 ELSE 0)

\* C4: a translateText call on non-blank text makes at most `retries`
\* requests whatever the service answers, and terminates: every step of a
\* call lowers its rank, which is never negative.
C4_BoundedAttempts ==
    /\ [](\A t \in DOMAIN tasks :
             /\ tasks[t].requests <= RETRIES
             /\ Rank(tasks[t]) >= 0
             /\ Live(tasks[t]) => Rank(tasks[t]) > 0)
    /\ [][\A t \in DOMAIN tasks :
             (Live(tasks[t]) /\ tasks'[t] # tasks[t])
                 => Rank(tasks'[t]) < Rank(tasks[t])]_vars

\* C4 witness: a call has used up its retries and returned null
C4_Witness ==
    /\ IsFile
    /\ \E t \in DOMAIN tasks :
          /\ tasks[t].state = "done" /\ tasks[t].called
          /\ tasks[t].requests = RETRIES /\ tasks[t].value = Null

\* the texts among title and description that translateText sends
SentMeta == {t \in {TitleTask, DescTask} : Truthy(TextOf(t)) /\ ~IsBlankText(TextOf(t))}

\* C5: translateText never throws; it returns the data of the first request
\* answered ok with code 200 and makes no request after it; it returns null
\* when every request failed; for blank text it returns the text without a
\* request and without advancing the key rotation.
C5_ReturnsDataOrNull ==
    /\ [](\A t \in DOMAIN tasks :
             LET task == tasks[t] IN
             /\ task.state # "threw"
             /\ task.okSeen =>
                   /\ task.state = "done"
                   /\ task.value \in {Data(task.text, o) : o \in Successes}
             /\ (task.state = "done" /\ task.called /\ ~task.okSeen
                     /\ ~IsBlankText(task.text))
                   => task.value = Null /\ task.requests = RETRIES
             /\ (task.called /\ IsBlankText(task.text))
                   => task.state = "done" /\ task.value = task.text
                          /\ task.requests = 0)
    /\ [][/\ \A t \in DOMAIN tasks :
                tasks[t].state = "done" => tasks'[t] \in {tasks[t], Collected}
          /\ StartMeta =>
                /\ Len(keyLog') = Len(keyLog) + Cardinality(SentMeta)
                /\ index' = IndexAfter(keys, index, Cardinality(SentMeta))]_vars

\* C5 witness: translateText was called with a blank title and returned it,
\* next to a description that was translated at its second request or later
C5_Witness ==
    /\ IsFile
    /\ tasks[TitleTask].called /\ IsBlankText(tasks[TitleTask].text)
    /\ tasks[TitleTask].state = "done"
    /\ tasks[DescTask].okSeen /\ tasks[DescTask].requests > 1

\* C6: with n >= 1 keys the k-th call of getNextKey returns
\* keys[(k - 1) mod n] (counted from 0), and the index stays in 0..n-1.
C6_RoundRobin ==
    (IsFile /\ Len(keys) >= 1) =>
        /\ \A k \in 1..Len(keyLog) : keyLog[k] = keys[((k - 1) % Len(keys)) + 1]
        /\ index \in 0..(Len(keys) - 1)

\* C6 witness: the rotation has wrapped around a list of several keys
C6_Witness ==
    IsFile /\ Len(keys) >= 2 /\ Len(keyLog) > Len(keys)

\* a request was issued for paragraph t, or t was passed through
Started(t) == tasks[t].state # "pending"
ResolvedTask(t) == tasks[t].state \in {"done", "collected"}

\* C7: at most CONCURRENCY requests are in flight at any moment, and no
\* request of a later batch is issued before every paragraph of the batches
\* before it has resolved.
C7_BatchesInTurn ==
    IsFile =>
        /\ Cardinality(InFlight) <= CONCURRENCY
        /\ \A t, u \in 1..P :
              (Started(t) /\ (u - 1) \div CONCURRENCY < (t - 1) \div CONCURRENCY)
                  => ResolvedTask(u)

\* C7 witness: a request of the second batch is in flight, after a first
\* batch of CONCURRENCY requests
C7_Witness ==
    /\ IsFile
    /\ batchStart = CONCURRENCY
    /\ \E t \in 1..P : t > CONCURRENCY /\ tasks[t].state = "inflight"

(***************************************************************************)
(* Properties of ApiSpec.                                                  *)
(***************************************************************************)
HasReturned == IsApi /\ handler = "returned"

\* the upstream request was made and fetch resolved to a response
Fetched == fetches > 0 /\ response.kind = "response"
UpstreamFailed == Fetched /\ ~IsOk(response.status)
UpstreamOkCode200 ==
    Fetched /\ IsOk(response.status) /\ response.body.kind = "object"
        /\ response.body.code = 200
UpstreamOtherCode ==
    Fetched /\ IsOk(response.status) /\ response.body.kind = "object"
        /\ response.body.code # 200

\* an exception inside the try block: the request body does not parse or is
\* null, fetch rejects, the upstream body does not parse or is null
RaisedException ==
    \/ request \in {NotJson, JsonNull}
    \/ fetches > 0 /\ response.kind = "thrown"
    \/ Fetched /\ IsOk(response.status) /\ response.body \in {NotJson, JsonNull}

\* what the handler does whatever the upstream status is
AnswersAlways ==
    /\ returned.kind = "response"
    /\ (returned.status = 200) <=> UpstreamOkCode200
    /\ UpstreamOkCode200 => returned.body = [translatedText |-> response.body.data]
    /\ UpstreamOtherCode => returned.status = 500
    /\ RaisedException => returned.status = 500

\* C11 as stated: the handler always resolves to a Response; the status is
\* 200 exactly when the upstream call answered ok with code 200; EVERY
\* upstream HTTP failure is answered with the upstream status; another code
\* with 500; an exception with 500.
C11_AnswersUpstreamStatus ==
    HasReturned =>
        /\ AnswersAlways
        /\ UpstreamFailed => returned.status = response.status

\* C12: a request whose JSON body has no text, or an empty one, is answered
\* with status 400 and the error "No text provided", and no upstream request
\* is issued for it.
C12_NoTextRefused ==
    (IsApi /\ handler \in {"fetch", "data", "returned"} /\ request.kind = "object"
        /\ request.text \in {Undefined, Empty})
      => /\ handler = "returned"
         /\ returned = [kind |-> "response", status |-> 400,
                        body |-> [error |-> "No text provided"]]
         /\ fetches = 0

\* C12 witness: a request with the text "" was answered
C12_Witness ==
    /\ HasReturned
    /\ request.kind = "object" /\ request.text = Empty
    /\ returned.kind = "response" /\ returned.status = 400

\* translateBatch has returned
BatchReturned ==
    IsFile /\ (pc \in {"awaitMeta", "done"} \/ (pc = "batch" /\ batchStart >= P))

\* C13: translateBatch preserves length and order: the result has as many
\* entries as texts, and entry i is the translation of texts[i] or texts[i]
\* itself, in every order in which the responses of a batch arrive.
C13_LengthAndOrderKept ==
    BatchReturned =>
        /\ Len(cur.body) = P
        /\ \A i \in 1..P :
              cur.body[i] \in {cur.paragraphs[i], Data(cur.paragraphs[i], "ok")}

\* C13 witness: two paragraphs of different text came back translated, each
\* in its place
C13_Witness ==
    /\ BatchReturned
    /\ P = 2 /\ cur.paragraphs[1] # cur.paragraphs[2]
    /\ cur.body = <<Data(cur.paragraphs[1], "ok"), Data(cur.paragraphs[2], "ok")>>

\* the retry of task t: its delay is over and its next request goes out
Retries(t) == tasks[t].state = "sleeping" /\ tasks'[t].state = "inflight"

\* C14: after a failed attempt the next attempt of the same call takes the
\* next key of the rotation, and so a key other than the one that just failed
\* whenever two distinct keys or more are configured, also when several calls
\* of a batch share the KeyManager.
C14_RetryTakesOtherKey ==
    [][\A t \in DOMAIN tasks :
          Retries(t) =>
              /\ tasks'[t].key = KeyAt(keys, index)
              /\ Cardinality(SeqToSet(keys)) >= 2 => tasks'[t].key # tasks[t].key]_vars

\* main has gone past its test of the environment, into translateDirectory
Proceeded == IsScript /\ pc \notin {"main", "exit"}

\* C15: whenever main proceeds to translation, the key list given to
\* KeyManager is non-empty, and the key of every request URL is an element
\* of that list (here: the key of the first request of each translateBatch
\* and of each title/description pair).
C15_KeysFromList ==
    /\ [](Proceeded => keys # <<>>)
    /\ [][(IsScript /\ pc \in {"body", "meta"}
              /\ (index' # index \/ requested' # requested))
            => KeyAt(keys, index) \in SeqToSet(keys)]_vars

\* a paragraph that is blank, or starts with three backticks, four spaces or "<"
IsPassedOn(text) ==
    \/ \A i \in 1..Len(text) : text[i] \in {" ", "\n"}
    \/ Len(text) >= 3 /\ \A i \in 1..3 : text[i] = Backtick
    \/ Len(text) >= 4 /\ \A i \in 1..4 : text[i] = " "
    \/ Len(text) >= 1 /\ text[1] = "<"

\* the paragraphs of the batch that starts at i that are not passed on
SentOfBatch(i) == {t \in BatchOf(i) : ~IsPassedOn(cur.paragraphs[t])}

\* C16: translateBatch issues no request for a paragraph that is blank or
\* starts with three backticks, four spaces or "<", and returns it unchanged;
\* the start of a batch advances the key rotation only by the paragraphs of
\* the batch that are not of this kind.
C16_PassedOnUntouched ==
    /\ [](IsFile =>
            \A t \in 1..P :
                IsPassedOn(cur.paragraphs[t]) =>
                    /\ tasks[t].requests = 0
                    /\ ~Live(tasks[t])
                    /\ BatchReturned => cur.body[t] = cur.paragraphs[t])
    /\ [][(IsFile /\ pc = "batch" /\ pc' = "await") =>
            /\ Len(keyLog') = Len(keyLog) + Cardinality(SentOfBatch(batchStart))
            /\ index' = IndexAfter(keys, index, Cardinality(SentOfBatch(batchStart)))]_vars

\* C16 witness: a blank paragraph came back as it was, next to a translated
\* one, after a single call of getNextKey
C16_Witness ==
    /\ BatchReturned /\ pc = "batch"
    /\ cur.paragraphs = <<Blank, Plain>>
    /\ cur.body = <<Blank, Data(Plain, "ok")>>
    /\ Len(keyLog) = 1 /\ Len(keys) >= 2 /\ index = 1

\* the step that writes the output of the queued file
Writes == IsScript /\ pc = "write" /\ doneLog' # doneLog

\* C17: a paragraph whose translation failed on every retry, or came back
\* empty, stands unchanged in the output; the file is written with the hash
\* of the source all the same; so a later run over the unchanged source skips
\* the file as cached and sends no request for it.
C17_FailedParagraphNeverRetried ==
    /\ [](IsScript =>
            /\ pc \in {"meta", "write"} =>
                  \A i \in 1..Len(cur.paragraphs) :
                      (~IsPassedOn(cur.paragraphs[i]) /\ ~Truthy(cur.translated[i]))
                          => cur.body[i] = cur.paragraphs[i]
            /\ \A e \in untranslated :
                  e[1] < run =>
                      /\ <<e[2], e[3]>> \notin requested
                      /\ (pc = "exit" /\ keys # <<>>) => <<e[2], e[3]>> \in skipLog)
    /\ [][Writes =>
            /\ out'[Dir][Entry.outputFileName].marker = hashContent(Entry.doc.content)
            /\ out'[Dir][Entry.outputFileName].body = Join(cur.body)]_vars

\* the integration logs that the body of the file at pos was not translated
BodyFailureLogged ==
    /\ IsHook /\ pc = "file" /\ pos <= Len(mdFiles)
    /\ src[Dir].entries[HookFile].kind = "file" /\ ~HookDoc.bad
    /\ failedLog' # failedLog

\* C18: when the translation of a file's body fails in the integration, no
\* output file is written for it, translationCache and both counters stay as
\* they are, and the loop goes on with the next file of the directory.
C18_FailedBodyLeavesNoTrace ==
    [][BodyFailureLogged =>
          /\ out' = out /\ written' = written
          /\ translationCache' = translationCache
          /\ counters' = counters
          /\ pc' = "file" /\ dirIdx' = dirIdx /\ mdFiles' = mdFiles
          /\ pos' = pos + 1]_vars

\* C18 witness: the body of a file failed, nothing was written for it, and a
\* later file of the directory was translated and written
C18_Witness ==
    /\ IsHook /\ pc = "file"
    /\ \E i, j \in 1..Len(mdFiles) :
          /\ i < j /\ j < pos
          /\ <<Dir, mdFiles[i]>> \in failedLog \ written
          /\ <<Dir, mdFiles[j]>> \in written \ skipLog
          /\ counters.translated = 1 /\ counters.skipped = 0

\* the step of the integration that writes a translated file
HookWrites ==
    /\ IsHook /\ pc = "file" /\ pos <= Len(mdFiles)
    /\ counters'.translated = counters.translated + 1

\* C19: when the translation of the title or of the description fails, the
\* written output keeps the title or description of the source, and the
\* translated body is written all the same; in the script and in the
\* integration.
C19_FailedTitleKeepsSource ==
    [][/\ Writes =>
            LET o == out'[Dir][Entry.outputFileName]
            IN  /\ ~Truthy(cur.translatedTitle) => o.title = Entry.doc.title
                /\ ~Truthy(cur.translatedDesc) => o.description = Entry.doc.description
                /\ o.body = Join(cur.body)
                /\ o.marker = Entry.contentHash
       /\ HookWrites =>
            LET o == out'[Dir][HookFile]
            IN  /\ ~cur'.titleSuccess => o.title = HookDoc.title
                /\ ~cur'.descSuccess => o.description = HookDoc.description
                /\ o.body = Data(Join(HookDoc.paragraphs), "ok")
                /\ o.marker = HookHash]_vars

\* C19 witness: the script wrote a file whose title is the title of the
\* source, its description translated, its first paragraph translated
C19_Witness ==
    /\ IsScript
    /\ \E e \in doneLog :
          LET doc == src[e[1]].entries[e[2]].doc
              o == out[e[1]][getOutputFileName(e[2])]
          IN  /\ doc = DocA /\ o.kind = "file"
              /\ o.title = DocA.title
              /\ o.description = Data(DocA.description, "ok")
              /\ o.body = Join(<<Data(Plain, "ok"), CodeFence>>)

\* the files of directory d that this run has dealt with: skipped as
\* cached, written, or logged as failed
DealtWith(d) == {e \in skipLog \cup doneLog \cup failedLog : e[1] = d}

\* the files of directory d this run has touched in any way
Touched(d) == {e \in requested \cup DealtWith(d) : e[1] = d}

\* C20: the script works strictly in sequence: a request for a queued file
\* is issued only when every file before it in the queue was written or
\* logged as failed; the title and description requests of a file start only
\* when translateBatch has returned with every paragraph (at request level:
\* when every paragraph call has resolved and was collected); and the note
\* directory is touched only when every file of the post directory has been
\* dealt with.
C20_StrictlyInSequence ==
    /\ [](IsScript =>
            /\ \A i \in 1..Len(filesToTranslate) :
                  <<QueueDir, filesToTranslate[i].file>> \in requested =>
                      \A j \in 1..(i - 1) :
                          <<QueueDir, filesToTranslate[j].file>> \in doneLog \cup failedLog
            /\ Touched("note") # {} =>
                  {<<"post", f>> : f \in MarkdownFilesOf("post")} \subseteq DealtWith("post"))
    /\ []((IsFile /\ (Started(TitleTask) \/ Started(DescTask))) =>
            \A t \in 1..P : tasks[t].state = "collected")
    /\ [][/\ (IsScript /\ cur.stage # "meta" /\ cur'.stage = "meta") =>
                cur.stage = "body" /\ Len(cur.body) = Len(cur.paragraphs)
          /\ (IsScript /\ Touched("note") # {} /\ run' = run) =>
                (Touched("post"))' = Touched("post")]_vars

\* C20 witness: a request was sent for the file of the note directory after
\* two files of the post directory were queued, the first failed and the
\* second written
C20_Witness ==
    /\ IsScript /\ Dir = "note"
    /\ <<"note", About>> \in requested
    /\ <<"post", Meng>> \in failedLog
    /\ <<"post", Dream>> \in doneLog \cap requested

====
